---- MODULE Spec2Model ----
(***************************************************************************)
(* vpc-router: the reconciliation pass over the VPC's route tables         *)
(* (src/vpc/__init__.py) and the event loop that feeds it from the         *)
(* watcher and health-monitor queues (src/vpcrouter/watcher/__init__.py).  *)
(***************************************************************************)
EXTENDS Integers, Sequences, FiniteSets, TLC

(***************************************************************************)
(* Bounds of the model.                                                    *)
(***************************************************************************)
\* longest candidate list of a CIDR in a route spec
MaxHosts == 2
\* passes run in a row by the stand-alone reconciliation specification
MaxPasses == 2
\* route-spec snapshots the watcher plugin sends in a run
MaxSpecMsgs == 2
\* failed-IP snapshots the health plugin sends in a run
MaxFailedMsgs == 2
\* largest 'iterations' argument given to the event loop
MaxIterations == 2

(***************************************************************************)
(* The universe: CIDRs, IP addresses (last octet of 10.0.0.x, so that      *)
(* sorted() is the order of the integers), instances and their interfaces. *)
(***************************************************************************)
None == "None"

CIDRs == {"10.0.1.0/24", "10.0.2.0/24"}

\* the order in which routes of a table and items of a dict are iterated
CidrOrder == <<"10.0.1.0/24", "10.0.2.0/24">>

\* the ipaddr None of a route whose interface the instance does not have
NoIP == 0

\* 10.0.0.5 and 10.0.0.6 belong to instances of the VPC, 10.0.0.7 to none
IPs == {5, 6, 7}

\* vpc_info['instances']: the instances of the VPC with their interfaces
Instances ==
    << [id |-> "i-5", interfaces |-> << [id |-> "eni-5", private_ip_address |-> 5] >>],
       [id |-> "i-6", interfaces |-> << [id |-> "eni-6", private_ip_address |-> 6] >>] >>

\* vpc_info['instance_by_id']
instance_by_id ==
    [id \in {Instances[k].id : k \in 1..Len(Instances)} |->
        (CHOOSE i \in {Instances[k] : k \in 1..Len(Instances)} : i.id = id)]

\* ids of vpc_info['route_tables'], in the order the API lists them
RouteTables == <<"rt-1", "rt-2">>

RouteTableIds == {RouteTables[k] : k \in 1..Len(RouteTables)}

\* no route for a CIDR in a table
NoRoute == [instance_id |-> "absent", interface_id |-> "absent"]

\* a route that is not attached to an instance (gateway, peering, local)
GatewayRoute == [instance_id |-> None, interface_id |-> None]

\* a route through the interface of an instance of the VPC
RouteVia(inst, eni) == [instance_id |-> inst, interface_id |-> eni]

\* a route whose instance is not among the instances the snapshot lists
StaleRoute == [instance_id |-> "i-9", interface_id |-> "eni-9"]

RouteValues ==
    {NoRoute, GatewayRoute, StaleRoute, RouteVia("i-5", "eni-5"), RouteVia("i-6", "eni-6")}

\* all contents of the route tables: at most one route per CIDR and table
Clouds == [RouteTableIds -> [CIDRs -> RouteValues]]

EmptyCloud == [rt \in RouteTableIds |-> [c \in CIDRs |-> NoRoute]]

\* candidate lists: non-empty, no IP twice, at most MaxHosts long
RECURSIVE HostLists(_)
HostLists(n) ==
    IF n = 0 THEN {<<>>}
    ELSE LET shorter == HostLists(n - 1)
         IN  shorter \cup
             {Append(h, ip) : h \in {s \in shorter : Len(s) = n - 1},
                              ip \in IPs}

Range(s) == {s[k] : k \in 1..Len(s)}

Hosts == {h \in HostLists(MaxHosts) : Len(h) > 0 /\ Cardinality(Range(h)) = Len(h)}

\* route specs: a dict from some CIDRs to their candidate lists
RouteSpecs == UNION {[D -> Hosts] : D \in SUBSET CIDRs}

EmptySpec == [c \in {} |-> <<>>]

\* failed-IP snapshots of the health monitor
FailedSets == {{}, {5}, {5, 6, 7}}

(***************************************************************************)
(* src/vpc/__init__.py: the reconciliation pass.                           *)
(***************************************************************************)

\* find_instance_and_emi_by_ip: the first interface, in the order of the
\* instances and of their interfaces, that has the IP; found = FALSE stands
\* for the VpcRouteSetError raised when there is none
AllInterfaces ==
    LET RECURSIVE Flat(_)
        Flat(k) ==
            IF k > Len(Instances) THEN <<>>
            ELSE [j \in 1..Len(Instances[k].interfaces) |->
                     [instance |-> Instances[k], eni |-> Instances[k].interfaces[j]]]
                 \o Flat(k + 1)
    IN  Flat(1)

find_instance_and_emi_by_ip(ip) ==
    LET hits == {k \in 1..Len(AllInterfaces) :
                    AllInterfaces[k].eni.private_ip_address = ip}
    IN  IF hits = {} THEN [found |-> FALSE, instance |-> None, eni |-> None]
        ELSE LET k == CHOOSE m \in hits : \A n \in hits : m <= n
             IN  [found |-> TRUE, instance |-> AllInterfaces[k].instance,
                  eni |-> AllInterfaces[k].eni]

\* get_instance_private_ip_from_route: the IP of the instance's interface the
\* route goes through, None when the instance has no such interface; eni is
\* the loop variable as the loop left it
get_instance_private_ip_from_route(instance, route) ==
    LET ifs  == instance.interfaces
        hits == {k \in 1..Len(ifs) : ifs[k].id = route.interface_id}
    IN  IF hits = {} THEN [ipaddr |-> NoIP, eni |-> ifs[Len(ifs)]]
        ELSE LET k == CHOOSE m \in hits : \A n \in hits : m <= n
             IN  [ipaddr |-> ifs[k].private_ip_address, eni |-> ifs[k]]

\* the calls of the cloud connector
CreateCall(rt, cidr, inst, eni) ==
    [op |-> "create_route", route_table_id |-> rt, destination_cidr_block |-> cidr,
     instance_id |-> inst, interface_id |-> eni]

ReplaceCall(rt, cidr, inst, eni) ==
    [op |-> "replace_route", route_table_id |-> rt, destination_cidr_block |-> cidr,
     instance_id |-> inst, interface_id |-> eni]

DeleteCall(rt, cidr) ==
    [op |-> "delete_route", route_table_id |-> rt, destination_cidr_block |-> cidr,
     instance_id |-> None, interface_id |-> None]

\* a result message of the pass
Msg(kind, rt, cidr) == [kind |-> kind, rt |-> rt, cidr |-> cidr]

\* route_spec.get(dcidr); the None of an absent key is written <<>>: the
\* result is only tested for truth, and None and [] are both false
SpecGet(route_spec, dcidr) ==
    IF dcidr \in DOMAIN route_spec THEN route_spec[dcidr] ELSE <<>>

\* truth value of a candidate list
HostsTruthy(hosts) == hosts /= <<>>

\* a variant of ExistingRouteInSpec that keeps a route only when it points at
\* the first candidate
ExistingRouteInSpec_OnlyFirst(acc, rt, dcidr, hosts, ipaddr) ==
    IF ipaddr = hosts[1]
    THEN [acc EXCEPT !.msg = Append(@, Msg("exists", rt, dcidr))]
    ELSE LET router_ip == hosts[1]
             new       == find_instance_and_emi_by_ip(router_ip)
         IN  IF new.found
             THEN [acc EXCEPT
                     !.msg = Append(@, Msg("updating", rt, dcidr)),
                     !.calls = Append(@, ReplaceCall(rt, dcidr,
                                                     new.instance.id, new.eni.id))]
             ELSE [acc EXCEPT !.msg = Append(@, Msg("failed_update", rt, dcidr))]

\* lines 247-271: an existing route whose CIDR is in the spec; ipaddr is the
\* IP the route points at now
ExistingRouteInSpec(acc, rt, dcidr, hosts, ipaddr) ==
    IF ipaddr \in Range(hosts)
    THEN [acc EXCEPT !.msg = Append(@, Msg("exists", rt, dcidr))]
    ELSE LET router_ip == hosts[1]
             new       == find_instance_and_emi_by_ip(router_ip)
         IN  IF new.found
             THEN [acc EXCEPT
                     !.msg = Append(@, Msg("updating", rt, dcidr)),
                     !.calls = Append(@, ReplaceCall(rt, dcidr,
                                                     new.instance.id, new.eni.id))]
             ELSE [acc EXCEPT !.msg = Append(@, Msg("failed_update", rt, dcidr))]

\* a variant of ExistingRouteNotInSpec that reports the route and keeps it
ExistingRouteNotInSpec_Keep(acc, rt, dcidr) ==
    [acc EXCEPT !.msg = Append(@, Msg("deleting", rt, dcidr))]

\* lines 273-278: an existing route whose CIDR is not in the spec
ExistingRouteNotInSpec(acc, rt, dcidr) ==
    [acc EXCEPT !.msg = Append(@, Msg("deleting", rt, dcidr)),
                !.calls = Append(@, DeleteCall(rt, dcidr))]

\* a variant of FirstLoopBody that does not skip the routes without instance:
\* it deletes those whose CIDR is not in the spec
FirstLoopBody_NoSkip(acc, rt, dcidr, r, route_spec) ==
    LET seen == [acc EXCEPT !.route_dict[rt] = Append(@, dcidr)]
    IN  IF r.instance_id = None
        THEN IF HostsTruthy(SpecGet(route_spec, dcidr)) THEN seen
             ELSE ExistingRouteNotInSpec(seen, rt, dcidr)
        ELSE IF r.instance_id \notin DOMAIN instance_by_id
        THEN [seen EXCEPT !.ok = FALSE]
        ELSE
          LET hosts    == SpecGet(route_spec, dcidr)
              instance == instance_by_id[r.instance_id]
              ip_eni   == get_instance_private_ip_from_route(instance, r)
          IN  IF HostsTruthy(hosts)
              THEN ExistingRouteInSpec(seen, rt, dcidr, hosts, ip_eni.ipaddr)
              ELSE ExistingRouteNotInSpec(seen, rt, dcidr)

\* a variant of FirstLoopBody that remembers in route_dict only the routes
\* attached to an instance
FirstLoopBody_SeenAfterSkip(acc, rt, dcidr, r, route_spec) ==
    LET seen == [acc EXCEPT !.route_dict[rt] = Append(@, dcidr)]
    IN  IF r.instance_id = None THEN acc
        ELSE IF r.instance_id \notin DOMAIN instance_by_id
        THEN [seen EXCEPT !.ok = FALSE]
        ELSE
          LET hosts    == SpecGet(route_spec, dcidr)
              instance == instance_by_id[r.instance_id]
              ip_eni   == get_instance_private_ip_from_route(instance, r)
          IN  IF HostsTruthy(hosts)
              THEN ExistingRouteInSpec(seen, rt, dcidr, hosts, ip_eni.ipaddr)
              ELSE ExistingRouteNotInSpec(seen, rt, dcidr)

\* the body of the first loop for one route r of table rt; acc carries the
\* calls issued, the messages, route_dict and whether the pass still runs
\* (ok = FALSE: an exception left the function, here the KeyError of
\* instance_by_id)
FirstLoopBody(acc, rt, dcidr, r, route_spec) ==
    LET seen == [acc EXCEPT !.route_dict[rt] = Append(@, dcidr)]
    IN  IF r.instance_id = None THEN seen
        ELSE IF r.instance_id \notin DOMAIN instance_by_id
        THEN [seen EXCEPT !.ok = FALSE]
        ELSE
          LET hosts    == SpecGet(route_spec, dcidr)
              instance == instance_by_id[r.instance_id]
              ip_eni   == get_instance_private_ip_from_route(instance, r)
          IN  IF HostsTruthy(hosts)
              THEN ExistingRouteInSpec(seen, rt, dcidr, hosts, ip_eni.ipaddr)
              ELSE ExistingRouteNotInSpec(seen, rt, dcidr)

\* the first loop: every route of every route table, in order
RECURSIVE FirstLoop(_, _, _, _, _)
FirstLoop(acc, t, c, route_tables, route_spec) ==
    IF ~acc.ok \/ t > Len(RouteTables) THEN acc
    ELSE IF c > Len(CidrOrder)
    THEN FirstLoop(acc, t + 1, 1, route_tables, route_spec)
    ELSE LET rt == RouteTables[t]
             r  == route_tables[rt][CidrOrder[c]]
         IN  IF r = NoRoute
             THEN FirstLoop(acc, t, c + 1, route_tables, route_spec)
             ELSE FirstLoop(FirstLoopBody(acc, rt, CidrOrder[c], r, route_spec),
                            t, c + 1, route_tables, route_spec)

\* a variant of SecondLoopBody that routes to the last candidate of the list
SecondLoopBody_LastHost(acc, rt_id, dcidr, hosts) ==
    IF dcidr \in Range(acc.route_dict[rt_id]) THEN acc
    ELSE IF hosts = <<>> THEN [acc EXCEPT !.ok = FALSE]
    ELSE LET router_ip == hosts[Len(hosts)]
             new       == find_instance_and_emi_by_ip(router_ip)
         IN  IF new.found
             THEN [acc EXCEPT
                     !.msg = Append(@, Msg("adding", rt_id, dcidr)),
                     !.calls = Append(@, CreateCall(rt_id, dcidr,
                                                    new.instance.id, new.eni.id))]
             ELSE [acc EXCEPT !.msg = Append(@, Msg("failed_add", rt_id, dcidr))]

\* a variant of SecondLoopBody that does not look at route_dict
SecondLoopBody_IgnoreSeen(acc, rt_id, dcidr, hosts) ==
    IF hosts = <<>> THEN [acc EXCEPT !.ok = FALSE]
    ELSE LET router_ip == hosts[1]
             new       == find_instance_and_emi_by_ip(router_ip)
         IN  IF new.found
             THEN [acc EXCEPT
                     !.msg = Append(@, Msg("adding", rt_id, dcidr)),
                     !.calls = Append(@, CreateCall(rt_id, dcidr,
                                                    new.instance.id, new.eni.id))]
             ELSE [acc EXCEPT !.msg = Append(@, Msg("failed_add", rt_id, dcidr))]

\* a variant of SecondLoopBody in which the VpcRouteSetError of
\* find_instance_and_emi_by_ip is not caught
SecondLoopBody_Uncaught(acc, rt_id, dcidr, hosts) ==
    IF dcidr \in Range(acc.route_dict[rt_id]) THEN acc
    ELSE IF hosts = <<>> THEN [acc EXCEPT !.ok = FALSE]
    ELSE LET router_ip == hosts[1]
             new       == find_instance_and_emi_by_ip(router_ip)
         IN  IF new.found
             THEN [acc EXCEPT
                     !.msg = Append(@, Msg("adding", rt_id, dcidr)),
                     !.calls = Append(@, CreateCall(rt_id, dcidr,
                                                    new.instance.id, new.eni.id))]
             ELSE [acc EXCEPT !.ok = FALSE]

\* the body of the second loop for one CIDR of the spec and one route table;
\* hosts[0] of an empty list raises IndexError
SecondLoopBody(acc, rt_id, dcidr, hosts) ==
    IF dcidr \in Range(acc.route_dict[rt_id]) THEN acc
    ELSE IF hosts = <<>> THEN [acc EXCEPT !.ok = FALSE]
    ELSE LET router_ip == hosts[1]
             new       == find_instance_and_emi_by_ip(router_ip)
         IN  IF new.found
             THEN [acc EXCEPT
                     !.msg = Append(@, Msg("adding", rt_id, dcidr)),
                     !.calls = Append(@, CreateCall(rt_id, dcidr,
                                                    new.instance.id, new.eni.id))]
             ELSE [acc EXCEPT !.msg = Append(@, Msg("failed_add", rt_id, dcidr))]

\* the second loop: every CIDR of the spec against every route table seen
RECURSIVE SecondLoop(_, _, _, _)
SecondLoop(acc, c, t, route_spec) ==
    IF ~acc.ok \/ c > Len(CidrOrder) THEN acc
    ELSE IF CidrOrder[c] \notin DOMAIN route_spec \/ t > Len(RouteTables)
    THEN SecondLoop(acc, c + 1, 1, route_spec)
    ELSE SecondLoop(SecondLoopBody(acc, RouteTables[t], CidrOrder[c],
                                   route_spec[CidrOrder[c]]),
                    c, t + 1, route_spec)

\* a variant of process_route_spec_config that drops from the spec the CIDRs
\* whose candidates have all failed
process_route_spec_config_DropFailed(route_tables, route_spec, daemon) ==
    LET healthy == [c \in {d \in DOMAIN route_spec :
                             \E k \in 1..Len(route_spec[d]) : route_spec[d][k] \notin daemon}
                      |-> route_spec[c]]
        start  == [calls |-> <<>>, msg |-> <<>>, ok |-> TRUE,
                   route_dict |-> [rt \in RouteTableIds |-> <<>>]]
        first  == FirstLoop(start, 1, 1, route_tables, healthy)
    IN  SecondLoop(first, 1, 1, healthy)

\* process_route_spec_config(con, vpc_info, route_spec, daemon): the calls it
\* issues and the messages it returns; the daemon argument is never read
process_route_spec_config(route_tables, route_spec, daemon) ==
    LET start  == [calls |-> <<>>, msg |-> <<>>, ok |-> TRUE,
                   route_dict |-> [rt \in RouteTableIds |-> <<>>]]
        first  == FirstLoop(start, 1, 1, route_tables, route_spec)
    IN  SecondLoop(first, 1, 1, route_spec)

\* the effect of one connector call on the route tables of the VPC
ApplyCall(tables, call) ==
    IF call.op = "delete_route"
    THEN [tables EXCEPT ![call.route_table_id][call.destination_cidr_block] = NoRoute]
    ELSE [tables EXCEPT ![call.route_table_id][call.destination_cidr_block] =
                            RouteVia(call.instance_id, call.interface_id)]

RECURSIVE ApplyCalls(_, _)
ApplyCalls(tables, calls) ==
    IF calls = <<>> THEN tables
    ELSE ApplyCalls(ApplyCall(tables, Head(calls)), Tail(calls))

(***************************************************************************)
(* State.                                                                  *)
(***************************************************************************)
VARIABLES
    cloud,               \* the route tables of the VPC, as the cloud holds them
    run,                 \* the last call of handle_spec: arguments and outcome
    pc,                  \* where the event loop stands
    iterations,          \* the 'iterations' argument, counted down
    q_failed_ips,        \* queue: health monitor -> event loop
    q_route_spec,        \* queue: watcher -> event loop
    q_monitor_ips,       \* queue: event loop -> health monitor
    failed_ips,          \* local: last message read from q_failed_ips
    new_route_spec,      \* local: last message read from q_route_spec
    CURRENT_STATE,       \* the shared state: failed_ips and route_spec
    current_route_spec,  \* local: the last route spec seen
    all_ips,             \* local: the IP list last sent to the health monitor
    n_spec_msgs,         \* snapshots sent by the watcher so far
    n_failed_msgs,       \* snapshots sent by the health monitor so far
    plugins,             \* the watcher and the health-monitor plugin threads
    ticks_left,          \* the 'iterations' given, less the ticks begun
    main,                \* the main body of the executable
    last_received,       \* history: the last route spec read from q_route_spec
    msg,                 \* local of _read_last_msg_from_queue, per queue
    slot                 \* the two queues as single-slot channels

loopVars == <<pc, iterations, q_failed_ips, q_route_spec, q_monitor_ips,
              failed_ips, new_route_spec, CURRENT_STATE, current_route_spec,
              all_ips, n_spec_msgs, n_failed_msgs, plugins, ticks_left, main, last_received, msg, slot>>

vars == <<cloud, run, pc, iterations, q_failed_ips, q_route_spec, q_monitor_ips,
          failed_ips, new_route_spec, CURRENT_STATE, current_route_spec,
          all_ips, n_spec_msgs, n_failed_msgs, plugins, ticks_left, main, last_received, msg, slot>>

\* a value read from a queue: None, or the message
NoMsg(empty) == [some |-> FALSE, val |-> empty]

SomeMsg(v) == [some |-> TRUE, val |-> v]

\* nothing read from, or nothing held for, either of the two queues
NoMsgs == [failed_ips |-> NoMsg({}), route_spec |-> NoMsg(EmptySpec)]

\* iterations = None
NoIterations == [some |-> FALSE, val |-> 0]

(***************************************************************************)
(* src/vpc-router.py: the command line and the main body.                  *)
(***************************************************************************)
\* the values of the options --mode, --port, --file, --address, --cmd,
\* --CIDR and --ip; None is the default of an option that was not given
Modes == {"cli", "http", "conffile", "foo"}

Ports == {0, 1, 33289, 65534, 65535, 65536}

Files == {None, "/missing", "/readable"}

Addrs == {"localhost", "10.0.0.1"}

Commands == {None, "show", "add"}

DstCidrs == {None, "10.0.1.0/24"}

RouterIps == {None, "10.0.0.5"}

\* the conf dictionary parse_args fills from the arguments
Confs ==
    [mode : Modes, port : Ports, file : Files, addr : Addrs,
     command : Commands, dst_cidr : DstCidrs, router_ip : RouterIps]

\* open(conf['file'], "r") does not raise IOError
Readable(file) == file = "/readable"

\* the three checks return the exception they raise, None when they return;
\* ip_ok: utils.ip_check accepts the addresses it is given
\* a variant of _check_http_mode_conf that accepts every port
_check_http_mode_conf_AnyPort(conf, ip_ok) ==
    IF conf.addr /= "localhost" /\ ~ip_ok THEN "ArgsError"
    ELSE None

_check_http_mode_conf(conf, ip_ok) ==
    IF ~(0 < conf.port /\ conf.port < 65535) THEN "ArgsError"
    ELSE IF conf.addr /= "localhost" /\ ~ip_ok THEN "ArgsError"
    ELSE None

_check_conffile_mode_conf(conf) ==
    IF conf.file = None THEN "ArgsError"
    ELSE IF ~Readable(conf.file) THEN "ArgsError"
    ELSE None

_check_cli_mode_conf(conf, ip_ok) ==
    IF conf.command \notin {"add", "del", "show"} THEN "ArgsError"
    ELSE IF conf.dst_cidr = None THEN "ArgsError"
    ELSE IF conf.command = "add" /\ conf.router_ip = None THEN "ArgsError"
    ELSE IF conf.command /= "add" /\ conf.router_ip /= None THEN "ArgsError"
    ELSE IF ~ip_ok THEN "ArgsError"
    ELSE None

\* parse_args: the exception that leaves it, None when conf is returned
parse_args(conf, ip_ok) ==
    IF conf.mode = "http" THEN _check_http_mode_conf(conf, ip_ok)
    ELSE IF conf.mode = "conffile" THEN _check_conffile_mode_conf(conf)
    ELSE IF conf.mode = "cli" THEN _check_cli_mode_conf(conf, ip_ok)
    ELSE "ArgsError"

\* start_plugins has returned: both plugin threads run
PluginsStarted == [watcher |-> "running", health |-> "running"]

PluginsNotStarted == [watcher |-> "not_started", health |-> "not_started"]

\* stop_plugins has returned
PluginsStopped == [watcher |-> "stopped", health |-> "stopped"]

\* the main body inside watcher.start_watcher, called with a conf that
\* parse_args returned
MainWatching ==
    [pc |-> "watching",
     conf |-> [mode |-> "http", port |-> 33289, file |-> None,
               addr |-> "localhost", command |-> None, dst_cidr |-> None,
               router_ip |-> None],
     raised |-> None, api |-> FALSE, exit |-> NoMsg(0)]

(***************************************************************************)
(* handle_spec: fetch the snapshot, run the pass, its calls reach the      *)
(* cloud as they are issued. fetch_ok = FALSE: connect_to_region or        *)
(* get_vpc_overview raised. ok = FALSE: handle_spec raised.                *)
(***************************************************************************)
handle_spec(route_spec, daemon, fetch_ok) ==
    LET res == IF fetch_ok
               THEN process_route_spec_config(cloud, route_spec, daemon)
               ELSE [calls |-> <<>>, msg |-> <<>>, ok |-> FALSE,
                     route_dict |-> [rt \in RouteTableIds |-> <<>>]]
    IN  /\ cloud' = ApplyCalls(cloud, res.calls)
        /\ run' = [n |-> run.n + 1, route_spec |-> route_spec, daemon |-> daemon,
                   fetched |-> fetch_ok, before |-> cloud,
                   calls |-> res.calls, msg |-> res.msg, ok |-> res.ok,
                   prev_calls |-> run.calls, prev_ok |-> run.ok]

\* the event loop before its first statement, nothing sent yet; CURRENT_STATE
\* is imported from vpcrouter.currentstate and holds nothing at start
LoopInit ==
    /\ pc = "wait"
    /\ iterations \in {NoIterations} \cup {SomeMsg(k) : k \in 0..MaxIterations}
    /\ q_failed_ips = <<>>
    /\ q_route_spec = <<>>
    /\ q_monitor_ips = <<>>
    /\ failed_ips = NoMsg({})
    /\ new_route_spec = NoMsg(EmptySpec)
    /\ CURRENT_STATE = [failed_ips |-> {}, route_spec |-> EmptySpec]
    /\ current_route_spec = EmptySpec
    /\ all_ips = <<>>
    /\ n_spec_msgs = 0
    /\ n_failed_msgs = 0
    /\ plugins = PluginsStarted
    /\ ticks_left = iterations.val
    /\ main = MainWatching
    /\ last_received = NoMsg(EmptySpec)
    /\ msg = NoMsgs
    /\ slot = NoMsgs

(***************************************************************************)
(* The reconciliation pass on its own: any route tables, any route spec,   *)
(* any failed-IP argument, and the pass run up to MaxPasses times in a row *)
(* with the same arguments.                                                *)
(***************************************************************************)
InitPass ==
    /\ cloud \in Clouds
    /\ \E rs \in RouteSpecs, f \in FailedSets :
          run = [n |-> 0, route_spec |-> rs, daemon |-> f, fetched |-> TRUE,
                 before |-> cloud, calls |-> <<>>, msg |-> <<>>, ok |-> TRUE,
                 prev_calls |-> <<>>, prev_ok |-> TRUE]
    /\ LoopInit
    /\ iterations = NoIterations

Reconcile ==
    /\ run.n < MaxPasses
    /\ handle_spec(run.route_spec, run.daemon, TRUE)
    /\ UNCHANGED loopVars

NextPass == Reconcile

SpecPass == InitPass /\ [][NextPass]_vars

(***************************************************************************)
(* src/vpcrouter/watcher/__init__.py: the event loop and its queues.       *)
(***************************************************************************)
Last(q) == q[Len(q)]

\* _read_last_msg_from_queue: get_nowait until Queue.Empty, the last message
\* got is returned, None when there was none. The queue is empty when
\* Queue.Empty is raised and every message put before has been got, so the
\* loop is one step taken at that moment.
\* _read_last_msg_from_queue(q, empty) is the value returned
_read_last_msg_from_queue(q, empty) ==
    IF q = <<>> THEN NoMsg(empty) ELSE SomeMsg(Last(q))

\* Python's truth value of what was read: None, [] and {} are false
Truthy(m, empty) == m.some /\ m.val /= empty

\* sorted(set(itertools.chain.from_iterable(route_spec.values())))
RECURSIVE Sorted(_)
Sorted(S) ==
    IF S = {} THEN <<>>
    ELSE LET least == CHOOSE x \in S : \A y \in S : x <= y
         IN  <<least>> \o Sorted(S \ {least})

new_all_ips(route_spec) ==
    Sorted(UNION {Range(route_spec[c]) : c \in DOMAIN route_spec})

\* the route specs the watcher plugin publishes
WatcherSpecs ==
    { EmptySpec,
      [c \in {"10.0.1.0/24"} |-> <<5, 6>>],
      [c \in CIDRs |-> IF c = "10.0.1.0/24" THEN <<6, 5>> ELSE <<7>>] }

\* the failed-IP snapshots the health-monitor plugin publishes
HealthReports == {{}, {5}, {5, 6}}

\* the route tables the VPC may hold when the program starts
InitClouds ==
    { EmptyCloud,
      [rt \in RouteTableIds |->
          IF rt = "rt-1"
          THEN [c \in CIDRs |-> IF c = "10.0.1.0/24"
                                THEN RouteVia("i-6", "eni-6") ELSE GatewayRoute]
          ELSE [c \in CIDRs |-> IF c = "10.0.1.0/24"
                                THEN NoRoute ELSE RouteVia("i-5", "eni-5")]],
      [rt \in RouteTableIds |->
          IF rt = "rt-1"
          THEN [c \in CIDRs |-> NoRoute]
          ELSE [c \in CIDRs |-> IF c = "10.0.1.0/24"
                                THEN RouteVia("i-5", "eni-5") ELSE StaleRoute]] }

Init ==
    /\ cloud \in InitClouds
    /\ run = [n |-> 0, route_spec |-> EmptySpec, daemon |-> {}, fetched |-> TRUE,
              before |-> cloud, calls |-> <<>>, msg |-> <<>>, ok |-> TRUE,
              prev_calls |-> <<>>, prev_ok |-> TRUE]
    /\ LoopInit

\* the watcher plugin puts a full route spec on its queue; sent on a
\* single-slot channel, it takes the place of what the slot holds
WatcherPut ==
    /\ n_spec_msgs < MaxSpecMsgs
    /\ \E rs \in WatcherSpecs :
          /\ q_route_spec' = Append(q_route_spec, rs)
          /\ slot' = [slot EXCEPT !.route_spec = SomeMsg(rs)]
    /\ n_spec_msgs' = n_spec_msgs + 1
    /\ UNCHANGED <<cloud, run, pc, iterations, q_failed_ips, q_monitor_ips,
                   failed_ips, new_route_spec, CURRENT_STATE, current_route_spec,
                   all_ips, n_failed_msgs,
                   plugins, ticks_left, main, last_received,
                   msg>>

\* the health-monitor plugin puts the full set of failed IPs on its queue
HealthPut ==
    /\ n_failed_msgs < MaxFailedMsgs
    /\ \E f \in HealthReports :
          /\ q_failed_ips' = Append(q_failed_ips, f)
          /\ slot' = [slot EXCEPT !.failed_ips = SomeMsg(f)]
    /\ n_failed_msgs' = n_failed_msgs + 1
    /\ UNCHANGED <<cloud, run, pc, iterations, q_route_spec, q_monitor_ips,
                   failed_ips, new_route_spec, CURRENT_STATE, current_route_spec,
                   all_ips, n_spec_msgs,
                   plugins, ticks_left, main, last_received,
                   msg>>

\* line 97: the sleep before the loop
InitialWait ==
    /\ pc = "wait"
    /\ pc' = "read_failed"
    /\ UNCHANGED <<cloud, run, iterations, q_failed_ips, q_route_spec,
                   q_monitor_ips, failed_ips, new_route_spec, CURRENT_STATE,
                   current_route_spec, all_ips, n_spec_msgs, n_failed_msgs,
                   plugins, ticks_left, main, last_received,
                   msg, slot>>

\* line 106, the first statement of a tick. ticks_left counts the ticks of
\* a loop that was given a number of iterations; one tick beyond that
\* number is counted and no more
ReadFailedIps ==
    /\ pc = "read_failed"
    /\ failed_ips' = _read_last_msg_from_queue(q_failed_ips, {})
    /\ q_failed_ips' = <<>>
    /\ pc' = "read_spec"
    /\ ticks_left' = IF iterations.some /\ ticks_left >= 0
                     THEN ticks_left - 1 ELSE ticks_left
    /\ slot' = [slot EXCEPT !.failed_ips = NoMsg({})]
    /\ UNCHANGED <<cloud, run, iterations, q_route_spec, q_monitor_ips,
                   new_route_spec, CURRENT_STATE, current_route_spec, all_ips,
                   n_spec_msgs, n_failed_msgs,
                   plugins, main, last_received,
                   msg>>

\* line 107; last_received keeps the route spec read, when one was read
ReadRouteSpec ==
    /\ pc = "read_spec"
    /\ new_route_spec' = _read_last_msg_from_queue(q_route_spec, EmptySpec)
    /\ q_route_spec' = <<>>
    /\ pc' = "store_failed"
    /\ last_received' = IF q_route_spec = <<>> THEN last_received
                        ELSE SomeMsg(Last(q_route_spec))
    /\ slot' = [slot EXCEPT !.route_spec = NoMsg(EmptySpec)]
    /\ UNCHANGED <<cloud, run, iterations, q_failed_ips, q_monitor_ips,
                   failed_ips, CURRENT_STATE, current_route_spec, all_ips,
                   n_spec_msgs, n_failed_msgs,
                   plugins, ticks_left, main,
                   msg>>

\* lines 109-111
StoreFailedIps ==
    /\ pc = "store_failed"
    /\ CURRENT_STATE' = IF Truthy(failed_ips, {})
                        THEN [CURRENT_STATE EXCEPT !.failed_ips = failed_ips.val]
                        ELSE CURRENT_STATE
    /\ pc' = "store_spec"
    /\ UNCHANGED <<cloud, run, iterations, q_failed_ips, q_route_spec,
                   q_monitor_ips, failed_ips, new_route_spec, current_route_spec,
                   all_ips, n_spec_msgs, n_failed_msgs,
                   plugins, ticks_left, main, last_received,
                   msg, slot>>

\* lines 113-124, with _update_health_monitor_with_new_ips (lines 52-77)
StoreRouteSpec ==
    /\ pc = "store_spec"
    /\ IF Truthy(new_route_spec, EmptySpec)
       THEN /\ CURRENT_STATE' = [CURRENT_STATE EXCEPT !.route_spec = new_route_spec.val]
            /\ current_route_spec' = new_route_spec.val
            /\ all_ips' = new_all_ips(new_route_spec.val)
            /\ q_monitor_ips' = IF new_all_ips(new_route_spec.val) /= all_ips
                                THEN Append(q_monitor_ips, new_all_ips(new_route_spec.val))
                                ELSE q_monitor_ips
       ELSE UNCHANGED <<CURRENT_STATE, current_route_spec, all_ips, q_monitor_ips>>
    /\ pc' = "handle"
    /\ UNCHANGED <<cloud, run, iterations, q_failed_ips, q_route_spec,
                   failed_ips, new_route_spec, n_spec_msgs, n_failed_msgs,
                   plugins, ticks_left, main, last_received,
                   msg, slot>>

\* HandleSpec with an exception of handle_spec leaving the loop
HandleSpec_StopsOnError ==
    /\ pc = "handle"
    /\ Truthy(new_route_spec, EmptySpec) \/ Truthy(failed_ips, {})
    /\ \E fetch_ok \in BOOLEAN :
          handle_spec(current_route_spec,
                      IF Truthy(failed_ips, {}) THEN failed_ips.val ELSE {},
                      fetch_ok)
    /\ pc' = IF run'.ok THEN "count" ELSE "stopped"
    /\ UNCHANGED <<iterations, q_failed_ips, q_route_spec, q_monitor_ips,
                   failed_ips, new_route_spec, CURRENT_STATE, current_route_spec,
                   all_ips, n_spec_msgs, n_failed_msgs,
                   plugins, ticks_left, main, last_received,
                   msg, slot>>

\* lines 129-131 and, when handle_spec raises, lines 143-146: the exception
\* is logged and the loop starts over, past the count-down and the sleep
HandleSpec ==
    /\ pc = "handle"
    /\ Truthy(new_route_spec, EmptySpec) \/ Truthy(failed_ips, {})
    /\ \E fetch_ok \in BOOLEAN :
          handle_spec(current_route_spec,
                      IF Truthy(failed_ips, {}) THEN failed_ips.val ELSE {},
                      fetch_ok)
    /\ pc' = IF run'.ok THEN "count" ELSE "read_failed"
    /\ UNCHANGED <<iterations, q_failed_ips, q_route_spec, q_monitor_ips,
                   failed_ips, new_route_spec, CURRENT_STATE, current_route_spec,
                   all_ips, n_spec_msgs, n_failed_msgs,
                   plugins, ticks_left, main, last_received,
                   msg, slot>>

\* line 129, condition false: nothing new in this tick
NothingNew ==
    /\ pc = "handle"
    /\ ~(Truthy(new_route_spec, EmptySpec) \/ Truthy(failed_ips, {}))
    /\ pc' = "count"
    /\ UNCHANGED <<cloud, run, iterations, q_failed_ips, q_route_spec,
                   q_monitor_ips, failed_ips, new_route_spec, CURRENT_STATE,
                   current_route_spec, all_ips, n_spec_msgs, n_failed_msgs,
                   plugins, ticks_left, main, last_received,
                   msg, slot>>

\* lines 134-139: count down, leave the loop at 0, sleep otherwise. A count
\* below 0 never comes back to 0: every negative count is kept as -1
CountDown ==
    /\ pc = "count"
    /\ IF iterations.some
       THEN /\ iterations' = [iterations EXCEPT !.val = IF @ < 0 THEN @ ELSE @ - 1]
            /\ pc' = IF iterations.val - 1 = 0 THEN "stopped" ELSE "read_failed"
       ELSE /\ iterations' = iterations
            /\ pc' = "read_failed"
    /\ UNCHANGED <<cloud, run, q_failed_ips, q_route_spec, q_monitor_ips,
                   failed_ips, new_route_spec, CURRENT_STATE, current_route_spec,
                   all_ips, n_spec_msgs, n_failed_msgs,
                   plugins, ticks_left, main, last_received,
                   msg, slot>>

\* the statements of the loop inside its try block (lines 105-139)
InTry == {"read_failed", "read_spec", "store_failed", "store_spec", "handle", "count"}

\* a KeyboardInterrupt reaches the thread of the event loop. Inside the try
\* block it is caught and the loop returns (lines 140-142); the sleep of
\* line 97 is outside the try block and start_watcher (lines 212-221) has
\* no handler: there the exception leaves start_watcher
KeyboardInterrupt ==
    /\ pc \in {"wait"} \cup InTry
    /\ pc' = IF pc = "wait" THEN "raised" ELSE "interrupted"
    /\ UNCHANGED <<cloud, run, iterations, q_failed_ips, q_route_spec,
                   q_monitor_ips, failed_ips, new_route_spec, CURRENT_STATE,
                   current_route_spec, all_ips, n_spec_msgs, n_failed_msgs,
                   plugins, ticks_left, main, last_received,
                   msg, slot>>

\* start_watcher after _event_monitor_loop returned (lines 219-221), with
\* stop_plugins (lines 173-182)
StopPlugins ==
    /\ pc \in {"stopped", "interrupted"}
    /\ plugins' = PluginsStopped
    /\ pc' = "returned"
    /\ UNCHANGED <<cloud, run, iterations, q_failed_ips, q_route_spec,
                   q_monitor_ips, failed_ips, new_route_spec, CURRENT_STATE,
                   current_route_spec, all_ips, n_spec_msgs, n_failed_msgs,
                   ticks_left, main, last_received,
                   msg, slot>>

\* one statement of the event loop
LoopStep ==
    \/ InitialWait
    \/ ReadFailedIps
    \/ ReadRouteSpec
    \/ StoreFailedIps
    \/ StoreRouteSpec
    \/ HandleSpec
    \/ NothingNew
    \/ CountDown
    \/ StopPlugins

Next ==
    \/ WatcherPut
    \/ HealthPut
    \/ InitialWait
    \/ ReadFailedIps
    \/ ReadRouteSpec
    \/ StoreFailedIps
    \/ StoreRouteSpec
    \/ HandleSpec
    \/ NothingNew
    \/ CountDown
    \/ KeyboardInterrupt
    \/ StopPlugins

Spec == Init /\ [][Next]_vars

\* the thread of the event loop keeps running: a statement of the loop that
\* can be executed is executed; the plugins need not send anything
FairSpec == Spec /\ WF_vars(LoopStep)

(***************************************************************************)
(* The main body of the executable (src/vpc-router.py, lines 204-229),     *)
(* from any command line to the start of the watcher, the one-off request  *)
(* of the cli mode, or the exit.                                           *)
(***************************************************************************)
InitMain ==
    /\ main \in {[pc |-> "parse_args", conf |-> conf, raised |-> None,
                  api |-> FALSE, exit |-> NoMsg(0)] : conf \in Confs}
    /\ plugins = PluginsNotStarted
    /\ cloud = EmptyCloud
    /\ run = [n |-> 0, route_spec |-> EmptySpec, daemon |-> {}, fetched |-> TRUE,
              before |-> cloud, calls |-> <<>>, msg |-> <<>>, ok |-> TRUE,
              prev_calls |-> <<>>, prev_ok |-> TRUE]
    /\ pc = "not_started"
    /\ iterations = NoIterations
    /\ q_failed_ips = <<>>
    /\ q_route_spec = <<>>
    /\ q_monitor_ips = <<>>
    /\ failed_ips = NoMsg({})
    /\ new_route_spec = NoMsg(EmptySpec)
    /\ CURRENT_STATE = [failed_ips |-> {}, route_spec |-> EmptySpec]
    /\ current_route_spec = EmptySpec
    /\ all_ips = <<>>
    /\ n_spec_msgs = 0
    /\ n_failed_msgs = 0
    /\ ticks_left = 0
    /\ last_received = NoMsg(EmptySpec)
    /\ msg = NoMsgs
    /\ slot = NoMsgs

\* line 207: conf = parse_args(); an ArgsError goes to the handler of line 224
ParseArgs ==
    /\ main.pc = "parse_args"
    /\ \E ip_ok \in BOOLEAN :
          LET e == parse_args(main.conf, ip_ok)
          IN  main' = [main EXCEPT !.raised = e,
                                   !.pc = IF e = None THEN "run" ELSE "except"]
    /\ UNCHANGED <<cloud, run, pc, iterations, q_failed_ips, q_route_spec,
                   q_monitor_ips, failed_ips, new_route_spec, CURRENT_STATE,
                   current_route_spec, all_ips, n_spec_msgs, n_failed_msgs,
                   plugins, ticks_left, last_received,
                   msg, slot>>

\* lines 212-215: watcher.start_watcher, which starts the plugins (watcher
\* lines 208-212) and enters the event loop at its initial wait
StartWatcher ==
    /\ main.pc = "run"
    /\ main.conf.mode /= "cli"
    /\ main' = [main EXCEPT !.pc = "watching"]
    /\ plugins' = PluginsStarted
    /\ pc' = "wait"
    /\ UNCHANGED <<cloud, run, iterations, q_failed_ips, q_route_spec,
                   q_monitor_ips, failed_ips, new_route_spec, CURRENT_STATE,
                   current_route_spec, all_ips, n_spec_msgs, n_failed_msgs,
                   ticks_left, last_received,
                   msg, slot>>

\* lines 216-223: the one-off request of the cli mode connects to the cloud
\* API; it returns 'found' or raises VpcRouteSetError (vpc lines 349-370)
CliRequest ==
    /\ main.pc = "run"
    /\ main.conf.mode = "cli"
    /\ \E outcome \in {"found", "not_found", "VpcRouteSetError"} :
          main' = IF outcome = "VpcRouteSetError"
                  THEN [main EXCEPT !.api = TRUE, !.raised = outcome, !.pc = "except"]
                  ELSE [main EXCEPT !.api = TRUE, !.pc = "exited",
                                    !.exit = SomeMsg(IF outcome = "found" THEN 0 ELSE 1)]
    /\ UNCHANGED <<cloud, run, pc, iterations, q_failed_ips, q_route_spec,
                   q_monitor_ips, failed_ips, new_route_spec, CURRENT_STATE,
                   current_route_spec, all_ips, n_spec_msgs, n_failed_msgs,
                   plugins, ticks_left, last_received,
                   msg, slot>>

\* lines 224-229: the handlers of ArgsError and VpcRouteSetError print or
\* log the message, and sys.exit(1) follows
MainExcept ==
    /\ main.pc = "except"
    /\ main' = [main EXCEPT !.pc = "exited", !.exit = SomeMsg(1)]
    /\ UNCHANGED <<cloud, run, pc, iterations, q_failed_ips, q_route_spec,
                   q_monitor_ips, failed_ips, new_route_spec, CURRENT_STATE,
                   current_route_spec, all_ips, n_spec_msgs, n_failed_msgs,
                   plugins, ticks_left, last_received,
                   msg, slot>>

NextMain ==
    \/ ParseArgs
    \/ StartWatcher
    \/ CliRequest
    \/ MainExcept

SpecMain == InitMain /\ [][NextMain]_vars

(***************************************************************************)
(* _read_last_msg_from_queue (watcher lines 31-49) statement by statement, *)
(* with the plugins putting messages while a queue is being read. The      *)
(* event loop reads q_failed_ips, then q_route_spec (lines 106-107), and   *)
(* what it does with the two values it read touches neither queue. Next to *)
(* each queue runs a single-slot channel: a message sent takes the place   *)
(* of the one held, a read takes what is held and leaves the slot empty.   *)
(***************************************************************************)
InitDrain ==
    /\ cloud = EmptyCloud
    /\ run = [n |-> 0, route_spec |-> EmptySpec, daemon |-> {}, fetched |-> TRUE,
              before |-> cloud, calls |-> <<>>, msg |-> <<>>, ok |-> TRUE,
              prev_calls |-> <<>>, prev_ok |-> TRUE]
    /\ LoopInit
    /\ iterations = NoIterations

\* a variant of GetRouteSpec that keeps the first message it got
GetRouteSpec_KeepFirst ==
    /\ pc = "read_spec"
    /\ q_route_spec /= <<>>
    /\ msg' = IF msg.route_spec.some THEN msg
              ELSE [msg EXCEPT !.route_spec = SomeMsg(Head(q_route_spec))]
    /\ q_route_spec' = Tail(q_route_spec)
    /\ UNCHANGED <<cloud, run, pc, iterations, q_failed_ips, q_monitor_ips,
                   failed_ips, new_route_spec, CURRENT_STATE, current_route_spec,
                   all_ips, n_spec_msgs, n_failed_msgs, plugins, ticks_left,
                   main, last_received, slot>>

\* lines 45-46, reading q_route_spec: msg = q.get_nowait() returns a message
GetRouteSpec ==
    /\ pc = "read_spec"
    /\ q_route_spec /= <<>>
    /\ msg' = [msg EXCEPT !.route_spec = SomeMsg(Head(q_route_spec))]
    /\ q_route_spec' = Tail(q_route_spec)
    /\ UNCHANGED <<cloud, run, pc, iterations, q_failed_ips, q_monitor_ips,
                   failed_ips, new_route_spec, CURRENT_STATE, current_route_spec,
                   all_ips, n_spec_msgs, n_failed_msgs, plugins, ticks_left,
                   main, last_received, slot>>

\* lines 47-49, reading q_route_spec: get_nowait raises Queue.Empty and msg
\* is returned; the single-slot channel is read at the same moment. The
\* next reading of a queue is that of q_failed_ips in the next tick
ReturnRouteSpec ==
    /\ pc = "read_spec"
    /\ q_route_spec = <<>>
    /\ new_route_spec' = msg.route_spec
    /\ msg' = [msg EXCEPT !.route_spec = NoMsg(EmptySpec)]
    /\ slot' = [slot EXCEPT !.route_spec = NoMsg(EmptySpec)]
    /\ last_received' = IF msg.route_spec.some THEN msg.route_spec ELSE last_received
    /\ pc' = "read_failed"
    /\ UNCHANGED <<cloud, run, iterations, q_failed_ips, q_route_spec,
                   q_monitor_ips, failed_ips, CURRENT_STATE, current_route_spec,
                   all_ips, n_spec_msgs, n_failed_msgs, plugins, ticks_left, main>>

\* lines 45-46, reading q_failed_ips
GetFailedIps ==
    /\ pc = "read_failed"
    /\ q_failed_ips /= <<>>
    /\ msg' = [msg EXCEPT !.failed_ips = SomeMsg(Head(q_failed_ips))]
    /\ q_failed_ips' = Tail(q_failed_ips)
    /\ UNCHANGED <<cloud, run, pc, iterations, q_route_spec, q_monitor_ips,
                   failed_ips, new_route_spec, CURRENT_STATE, current_route_spec,
                   all_ips, n_spec_msgs, n_failed_msgs, plugins, ticks_left,
                   main, last_received, slot>>

\* lines 47-49, reading q_failed_ips
ReturnFailedIps ==
    /\ pc = "read_failed"
    /\ q_failed_ips = <<>>
    /\ failed_ips' = msg.failed_ips
    /\ msg' = [msg EXCEPT !.failed_ips = NoMsg({})]
    /\ slot' = [slot EXCEPT !.failed_ips = NoMsg({})]
    /\ pc' = "read_spec"
    /\ UNCHANGED <<cloud, run, iterations, q_failed_ips, q_route_spec,
                   q_monitor_ips, new_route_spec, CURRENT_STATE,
                   current_route_spec, all_ips, n_spec_msgs, n_failed_msgs,
                   plugins, ticks_left, main, last_received>>

NextDrain ==
    \/ WatcherPut
    \/ HealthPut
    \/ InitialWait
    \/ GetFailedIps
    \/ ReturnFailedIps
    \/ GetRouteSpec
    \/ ReturnRouteSpec

SpecDrain == InitDrain /\ [][NextDrain]_vars

(***************************************************************************)
(* Vocabulary of the claims about the pass. run.before is the content of   *)
(* the route tables the last pass fetched, cloud their content after it.   *)
(***************************************************************************)
\* the last pass returned its messages (no exception left it)
Completed == run.n >= 1 /\ run.ok

\* the last pass returned and reported no failure
CompletedWithoutError ==
    /\ Completed
    /\ \A k \in 1..Len(run.msg) : run.msg[k].kind \notin {"failed_update", "failed_add"}

\* the IP belongs to an interface of an instance of the VPC
Resolves(ip) == find_instance_and_emi_by_ip(ip).found

\* the route through the instance/interface that has the IP (no route when
\* no instance has it)
TargetOf(ip) ==
    LET t == find_instance_and_emi_by_ip(ip)
    IN  IF t.found THEN RouteVia(t.instance.id, t.eni.id) ELSE NoRoute

\* the route is attached to an instance the snapshot lists
Attached(r) == r.instance_id \in DOMAIN instance_by_id

\* the IP an attached route points at
RouteIP(r) ==
    get_instance_private_ip_from_route(instance_by_id[r.instance_id], r).ipaddr

\* the candidate the design chooses: the first that has not failed, the
\* first of the list when all have failed
ChosenIP(hosts, failed) ==
    LET healthy == {k \in 1..Len(hosts) : hosts[k] \notin failed}
    IN  IF healthy = {} THEN hosts[1]
        ELSE hosts[CHOOSE k \in healthy : \A m \in healthy : k <= m]

\* the calls of the last pass for a table and a CIDR
CallsFor(rt, c) ==
    {k \in 1..Len(run.calls) :
        /\ run.calls[k].route_table_id = rt
        /\ run.calls[k].destination_cidr_block = c}

CallsOf(op, rt, c) == {k \in CallsFor(rt, c) : run.calls[k].op = op}

HasMsg(kind, rt, c) == \E k \in 1..Len(run.msg) : run.msg[k] = Msg(kind, rt, c)

(***************************************************************************)
(* C1 as stated: with no failed IP, after a pass that completes without    *)
(* error every route table has, for each CIDR of the route spec, a route   *)
(* through the instance/interface of the first candidate.                  *)
(***************************************************************************)
C1_FirstCandidateEverywhere ==
    (CompletedWithoutError /\ run.daemon = {}) =>
        \A rt \in RouteTableIds : \A c \in DOMAIN run.route_spec :
            cloud[rt][c] = TargetOf(run.route_spec[c][1])

(***************************************************************************)
(* C1 amended: with no failed IP, after a pass that completes without      *)
(* error every route table has a route for each CIDR of the route spec: a  *)
(* route that was not attached to an instance, or that pointed at one of   *)
(* the CIDR's candidates, is the route it was; any other route is one      *)
(* through the instance/interface of the first candidate.                  *)
(***************************************************************************)
C1_SomeCandidateEverywhere ==
    (CompletedWithoutError /\ run.daemon = {}) =>
        \A rt \in RouteTableIds : \A c \in DOMAIN run.route_spec :
            LET old == run.before[rt][c]
                hosts == run.route_spec[c]
            IN  /\ cloud[rt][c] /= NoRoute
                /\ IF old = GatewayRoute \/ (old /= NoRoute /\ RouteIP(old) \in Range(hosts))
                   THEN cloud[rt][c] = old
                   ELSE cloud[rt][c] = TargetOf(hosts[1])

C1_Witness ==
    /\ CompletedWithoutError /\ run.daemon = {} /\ run.n = 1
    /\ \E rt \in RouteTableIds : \E c \in DOMAIN run.route_spec :
          /\ Len(run.route_spec[c]) = 2
          /\ Attached(run.before[rt][c])
          /\ RouteIP(run.before[rt][c]) = run.route_spec[c][2]
          /\ cloud[rt][c] = run.before[rt][c]
    /\ \E rt \in RouteTableIds : \E c \in DOMAIN run.route_spec :
          /\ CallsOf("create_route", rt, c) /= {}
          /\ cloud[rt][c] = TargetOf(run.route_spec[c][1])

(***************************************************************************)
(* C2 as stated: when the first candidate of a CIDR is in the failed-IP    *)
(* set handed to the pass and a later one is not, the pass leaves in every *)
(* route table that had no route for the CIDR, or a route attached to an   *)
(* instance, a route through the first candidate that has not failed.      *)
(***************************************************************************)
C2_RoutesToFirstHealthy ==
    Completed =>
        \A rt \in RouteTableIds : \A c \in DOMAIN run.route_spec :
            LET hosts == run.route_spec[c]
                old == run.before[rt][c]
            IN  ( /\ hosts[1] \in run.daemon
                  /\ \E k \in 2..Len(hosts) : hosts[k] \notin run.daemon
                  /\ Resolves(ChosenIP(hosts, run.daemon))
                  /\ old = NoRoute \/ Attached(old) )
                => cloud[rt][c] = TargetOf(ChosenIP(hosts, run.daemon))

(***************************************************************************)
(* C3 as stated: for an existing route attached to an instance whose CIDR  *)
(* is in the route spec, a pass that returns issues no call and reports    *)
(* the route as existing when it points at the chosen candidate, and       *)
(* otherwise issues exactly one replace_route for that table and CIDR,     *)
(* through the chosen candidate's instance/interface.                      *)
(***************************************************************************)
C3_ReplaceUnlessChosen ==
    Completed =>
        \A rt \in RouteTableIds : \A c \in DOMAIN run.route_spec :
            LET old == run.before[rt][c]
                chosen == ChosenIP(run.route_spec[c], run.daemon)
            IN  (Attached(old) /\ Resolves(chosen)) =>
                    IF RouteIP(old) = chosen
                    THEN CallsFor(rt, c) = {} /\ HasMsg("exists", rt, c)
                    ELSE /\ Cardinality(CallsFor(rt, c)) = 1
                         /\ \A k \in CallsFor(rt, c) :
                               run.calls[k] = ReplaceCall(rt, c,
                                   TargetOf(chosen).instance_id,
                                   TargetOf(chosen).interface_id)

(***************************************************************************)
(* C3 amended: for an existing route attached to an instance whose CIDR is *)
(* in the route spec, a pass that returns issues no call and reports the   *)
(* route as existing when it points at any candidate of the CIDR;          *)
(* otherwise it issues exactly one replace_route for that table and CIDR,  *)
(* through the instance/interface of the first candidate of the list, or,  *)
(* when that IP belongs to no instance, no call and a failure message.     *)
(***************************************************************************)
C3_ReplaceUnlessCandidate ==
    Completed =>
        \A rt \in RouteTableIds : \A c \in DOMAIN run.route_spec :
            LET old == run.before[rt][c]
                hosts == run.route_spec[c]
            IN  Attached(old) =>
                    IF RouteIP(old) \in Range(hosts)
                    THEN CallsFor(rt, c) = {} /\ HasMsg("exists", rt, c)
                    ELSE IF Resolves(hosts[1])
                    THEN /\ Cardinality(CallsFor(rt, c)) = 1
                         /\ \A k \in CallsFor(rt, c) :
                               run.calls[k] = ReplaceCall(rt, c,
                                   TargetOf(hosts[1]).instance_id,
                                   TargetOf(hosts[1]).interface_id)
                    ELSE CallsFor(rt, c) = {} /\ HasMsg("failed_update", rt, c)

C3_Witness ==
    /\ Completed /\ run.n = 1
    /\ \E rt \in RouteTableIds : \E c \in DOMAIN run.route_spec :
          /\ Len(run.route_spec[c]) = 2
          /\ Attached(run.before[rt][c])
          /\ RouteIP(run.before[rt][c]) = run.route_spec[c][2]
          /\ CallsFor(rt, c) = {}
    /\ \E rt \in RouteTableIds : \E c \in DOMAIN run.route_spec :
          /\ Attached(run.before[rt][c])
          /\ RouteIP(run.before[rt][c]) \notin Range(run.route_spec[c])
          /\ CallsOf("replace_route", rt, c) /= {}

(***************************************************************************)
(* C4 as stated: when every candidate of a CIDR is in the failed-IP set, a *)
(* pass that returns leaves in every route table a route for the CIDR      *)
(* through the instance/interface of the first candidate.                  *)
(***************************************************************************)
C4_AllFailedFirstCandidate ==
    Completed =>
        \A rt \in RouteTableIds : \A c \in DOMAIN run.route_spec :
            (Range(run.route_spec[c]) \subseteq run.daemon /\ Resolves(run.route_spec[c][1]))
            => cloud[rt][c] = TargetOf(run.route_spec[c][1])

(***************************************************************************)
(* C4 amended: when every candidate of a CIDR is in the failed-IP set and  *)
(* the first candidate belongs to an instance of the VPC, a pass that      *)
(* returns leaves a route for the CIDR in every route table: the route     *)
(* that was there, when it was not attached to an instance or pointed at   *)
(* one of the candidates, and a route through the first candidate's        *)
(* instance/interface otherwise.                                           *)
(***************************************************************************)
C4_AllFailedStillRouted ==
    Completed =>
        \A rt \in RouteTableIds : \A c \in DOMAIN run.route_spec :
            LET old == run.before[rt][c]
                hosts == run.route_spec[c]
            IN  (Range(hosts) \subseteq run.daemon /\ Resolves(hosts[1])) =>
                   /\ cloud[rt][c] /= NoRoute
                   /\ (old = NoRoute \/ (Attached(old) /\ RouteIP(old) \notin Range(hosts)))
                         => cloud[rt][c] = TargetOf(hosts[1])
                   /\ (old = GatewayRoute \/ (Attached(old) /\ RouteIP(old) \in Range(hosts)))
                         => cloud[rt][c] = old

C4_Witness ==
    /\ Completed /\ run.n = 1
    /\ \E c \in DOMAIN run.route_spec :
          /\ Len(run.route_spec[c]) = 2
          /\ Range(run.route_spec[c]) \subseteq run.daemon
          /\ \E rt \in RouteTableIds :
                /\ run.before[rt][c] = NoRoute
                /\ cloud[rt][c] = TargetOf(run.route_spec[c][1])
          /\ \E rt \in RouteTableIds :
                /\ Attached(run.before[rt][c])
                /\ RouteIP(run.before[rt][c]) = run.route_spec[c][2]
                /\ cloud[rt][c] = run.before[rt][c]

(***************************************************************************)
(* C5: a second pass with the same route spec and failed-IP set, run on    *)
(* the route tables as the first pass left them, issues no create_route,   *)
(* replace_route or delete_route.                                          *)
(***************************************************************************)
C5_SecondPassIssuesNothing ==
    run.n >= 2 => run.calls = <<>>

C5_Witness ==
    /\ run.n = 2
    /\ run.ok
    /\ Len(run.prev_calls) >= 3
    /\ \E k \in 1..Len(run.prev_calls) : run.prev_calls[k].op = "delete_route"
    /\ \E k \in 1..Len(run.prev_calls) : run.prev_calls[k].op = "replace_route"
    /\ \E k \in 1..Len(run.prev_calls) : run.prev_calls[k].op = "create_route"
    /\ run.calls = <<>>

C7_UnattachedRoutesUntouched ==
    run.n >= 1 =>
        \A rt \in RouteTableIds : \A c \in CIDRs :
            run.before[rt][c].instance_id = None =>
                CallsFor(rt, c) = {} /\ cloud[rt][c] = run.before[rt][c]

C7_Witness ==
    /\ Completed /\ run.n = 1
    /\ \E rt \in RouteTableIds :
          /\ \E c \in DOMAIN run.route_spec :
                run.before[rt][c] = GatewayRoute /\ cloud[rt][c] = GatewayRoute
          /\ \E c \in CIDRs \ DOMAIN run.route_spec :
                run.before[rt][c] = GatewayRoute /\ cloud[rt][c] = GatewayRoute
    /\ run.calls /= <<>>

(***************************************************************************)
(* Claims about the event loop. At pc = "count" a tick has read both       *)
(* queues, stored what it read and, if it called handle_spec, the call     *)
(* returned: failed_ips and new_route_spec are what this tick read.        *)
(***************************************************************************)
TickDone == pc = "count"

(***************************************************************************)
(* C8 as stated: a tick's poll of a channel leaves the channel empty and   *)
(* yields the snapshot enqueued last, or no message when none is queued;   *)
(* and at the end of the tick the shared state holds, for each channel,    *)
(* the snapshot the tick got from it.                                      *)
(***************************************************************************)
C8_LatestWins ==
    /\ [][ /\ (pc = "read_spec" /\ pc' /= pc) =>
                 /\ q_route_spec' = <<>>
                 /\ new_route_spec' = IF q_route_spec = <<>> THEN NoMsg(EmptySpec)
                                      ELSE SomeMsg(q_route_spec[Len(q_route_spec)])
           /\ (pc = "read_failed" /\ pc' /= pc) =>
                 /\ q_failed_ips' = <<>>
                 /\ failed_ips' = IF q_failed_ips = <<>> THEN NoMsg({})
                                  ELSE SomeMsg(q_failed_ips[Len(q_failed_ips)]) ]_vars
    /\ [](TickDone =>
            /\ new_route_spec.some => CURRENT_STATE.route_spec = new_route_spec.val
            /\ failed_ips.some => CURRENT_STATE.failed_ips = failed_ips.val)

(***************************************************************************)
(* C9 as stated, its last sentence: at the end of a tick that read a       *)
(* failed-IP snapshot, the empty one included, the failed-IP set of the    *)
(* shared state is that snapshot.                                          *)
(***************************************************************************)
C9_FailedSnapshotStored ==
    (TickDone /\ failed_ips.some) => CURRENT_STATE.failed_ips = failed_ips.val

(***************************************************************************)
(* C10 as stated: at the end of a tick that read a route spec and no       *)
(* failed-IP snapshot, the pass of the tick was called with that route     *)
(* spec and with the failed-IP set the shared state holds.                 *)
(***************************************************************************)
C10_SpecOnlyTickUsesStoredFailed ==
    (TickDone /\ Truthy(new_route_spec, EmptySpec) /\ ~failed_ips.some) =>
        /\ run.route_spec = new_route_spec.val
        /\ run.daemon = CURRENT_STATE.failed_ips

\* the event loop is over: it left its while loop or an exception left it
LoopEnded == pc \in {"stopped", "interrupted", "returned", "raised"}

(***************************************************************************)
(* C11 as stated: when the k-th pass was aborted by an error, a further    *)
(* pass is attempted on a later tick of the loop, or the loop has ended.   *)
(* No message of a plugin is needed for it.                                *)
(***************************************************************************)
C11_AbortedPassRetried ==
    \A k \in 1..(MaxSpecMsgs + MaxFailedMsgs) :
        (run.n = k /\ ~run.ok) ~> (run.n > k \/ LoopEnded)

(***************************************************************************)
(* C12: a step in which handle_spec raises takes the loop back to the      *)
(* first statement of a tick, the polling of the two queues, with the      *)
(* plugins and the iteration count as they were; the while loop is only    *)
(* left through the iteration count.                                       *)
(***************************************************************************)
C12_ExceptionKeepsLoopRunning ==
    /\ [][ (pc = "handle" /\ run'.n = run.n + 1 /\ ~run'.ok) =>
              /\ pc' = "read_failed"
              /\ plugins' = plugins
              /\ iterations' = iterations ]_vars
    /\ [](pc = "stopped" => iterations.some /\ iterations.val = 0)

\* a pass of a later tick returned after the pass before it had raised
C12_Witness ==
    /\ run.n >= 2
    /\ ~run.prev_ok
    /\ run.ok
    /\ pc = "count"

\* the calls, or the messages, of a pass that are not about the CIDR c0
CallsElsewhere(calls, c0) ==
    LET Other(call) == call.destination_cidr_block /= c0
    IN  SelectSeq(calls, Other)

MsgsElsewhere(msgs, c0) ==
    LET Other(m) == m.cidr /= c0
    IN  SelectSeq(msgs, Other)

\* the pass has to choose a router for the CIDR in the table: the table has
\* no route for it, or a route through an instance that is no candidate
MustChoose(rt, c) ==
    LET old == run.before[rt][c]
    IN  \/ old = NoRoute
        \/ Attached(old) /\ RouteIP(old) \notin Range(run.route_spec[c])

C14_OnlyFetchFailureStopsPass ==
    (run.n >= 1 /\ run.fetched) => run.ok

(***************************************************************************)
(* C15 as stated, its last part: once start_watcher is over, by its return *)
(* or by an exception that leaves it, stop() has been called on both       *)
(* plugins.                                                                *)
(***************************************************************************)
C15_PluginsStoppedWhenLoopEnds ==
    pc \in {"returned", "raised"} => plugins = PluginsStopped

(***************************************************************************)
(* C16 as stated: a loop that was given N iterations never begins more     *)
(* than N ticks, and when it leaves its while loop it has begun exactly N. *)
(***************************************************************************)
C16_StopsAfterGivenTicks ==
    iterations.some =>
        /\ ticks_left >= 0
        /\ pc = "stopped" => ticks_left = 0

(***************************************************************************)
(* C17 as stated: the shared state goes from one (route spec, failed-IP    *)
(* set) pair to the next in one step. A step of a tick that read both a    *)
(* new route spec and a new failed-IP set and writes the failed-IP set     *)
(* writes the route spec too: no state in between, which a reader on       *)
(* another thread would see, holds the new set with the old route spec.    *)
(***************************************************************************)
C17_PairReplacedInOneStep ==
    [][ ( /\ Truthy(new_route_spec, EmptySpec)
          /\ new_route_spec.val /= CURRENT_STATE.route_spec
          /\ pc \in {"store_failed", "store_spec"}
          /\ CURRENT_STATE'.failed_ips /= CURRENT_STATE.failed_ips )
        => CURRENT_STATE'.route_spec = new_route_spec.val ]_vars

\* the arguments the claim calls invalid: an unknown mode, a listen port
\* that is no TCP port in http mode, no config file or one that cannot be
\* opened in conffile mode
InvalidArgs(conf) ==
    \/ conf.mode \notin {"cli", "http", "conffile"}
    \/ conf.mode = "http" /\ conf.port \notin 1..65535
    \/ conf.mode = "conffile" /\ (conf.file = None \/ ~Readable(conf.file))

(***************************************************************************)
(* C18: once parse_args is over for invalid arguments, ArgsError was       *)
(* raised, the main body is in its handler or has exited, with status 1,   *)
(* the plugins were not started and no request went to the cloud API.      *)
(***************************************************************************)
C18_InvalidArgsExitNonZero ==
    (InvalidArgs(main.conf) /\ main.pc /= "parse_args") =>
        /\ main.raised = "ArgsError"
        /\ main.pc \in {"except", "exited"}
        /\ main.pc = "exited" => main.exit = SomeMsg(1)
        /\ plugins = PluginsNotStarted
        /\ pc = "not_started"
        /\ ~main.api
        /\ run.n = 0

\* the program has exited for a listen port beyond the last TCP port
C18_Witness ==
    /\ main.pc = "exited"
    /\ main.conf.mode = "http"
    /\ main.conf.port = 65536
    /\ InvalidArgs(main.conf)
    /\ main.exit = SomeMsg(1)

(***************************************************************************)
(* C19 as stated: the step of a tick that decides about the pass invokes   *)
(* handle_spec, once, exactly when the tick got a message from one of the  *)
(* two queues; the other steps of a tick invoke no pass and change no      *)
(* route.                                                                  *)
(***************************************************************************)
C19_PassIffUpdateReceived ==
    [][ /\ (pc = "handle" /\ pc' \notin {"handle", "interrupted"}) =>
              ((failed_ips.some \/ new_route_spec.some) <=> run'.n = run.n + 1)
        /\ pc /= "handle" => (run' = run /\ cloud' = cloud) ]_vars

(***************************************************************************)
(* C20 as stated: at the end of a tick that read a route spec from the     *)
(* watcher's queue, the mapping without CIDRs included, the route spec of  *)
(* the shared state is that route spec, and so is the one given to the     *)
(* pass of the tick when there was one.                                    *)
(***************************************************************************)
C20_SharedSpecIsLastPolled ==
    (TickDone /\ new_route_spec.some) =>
        /\ CURRENT_STATE.route_spec = new_route_spec.val
        /\ (Truthy(new_route_spec, EmptySpec) \/ Truthy(failed_ips, {})) =>
              run.route_spec = new_route_spec.val

\* the list last put on the health monitor's queue; the loop starts with
\* all_ips = [], as if the empty list had been put
LastPushed == IF q_monitor_ips = <<>> THEN <<>> ELSE Last(q_monitor_ips)

(***************************************************************************)
(* C21 as stated: at the end of a tick that read a route spec, the list    *)
(* last put on the health monitor's queue is the sorted list, without      *)
(* duplicates, of the IPs of that route spec.                              *)
(***************************************************************************)
C21_LastPushedIsAllIps ==
    (TickDone /\ new_route_spec.some) => LastPushed = new_all_ips(new_route_spec.val)

(***************************************************************************)
(* C22 as stated: at the end of a tick that read a failed-IP snapshot and  *)
(* no route spec, and ran a pass, the pass was given the last route spec   *)
(* read from the watcher's queue.                                          *)
(***************************************************************************)
C22_FailedOnlyTickUsesLastSpec ==
    (TickDone /\ Truthy(failed_ips, {}) /\ ~new_route_spec.some /\ last_received.some) =>
        run.route_spec = last_received.val

C24_NoPassBeforeFirstSpec ==
    run.n >= 1 => (last_received.some /\ run.route_spec \in WatcherSpecs)

(***************************************************************************)
(* C25: whenever _read_last_msg_from_queue returns, for either queue, the  *)
(* value it returns is the value a read of the single-slot channel gives   *)
(* at that moment: the two coordinators read the same values tick by tick, *)
(* and so write the same shared states and invoke the same passes.         *)
(***************************************************************************)
C25_QueueReadsAsSingleSlot ==
    [][ /\ (pc = "read_failed" /\ pc' = "read_spec") => failed_ips' = slot.failed_ips
        /\ (pc = "read_spec" /\ pc' \in {"read_failed", "store_failed"}) =>
              new_route_spec' = slot.route_spec ]_vars

\* in the middle of reading q_route_spec: one route spec has been got, a
\* different one waits behind it, and it is the one the slot holds
C25_Witness ==
    /\ pc = "read_spec"
    /\ msg.route_spec.some
    /\ q_route_spec /= <<>>
    /\ Head(q_route_spec) /= msg.route_spec.val
    /\ slot.route_spec = SomeMsg(Last(q_route_spec))

(***************************************************************************)
(* src/vpc/__init__.py: the one-off request of the cli mode. manage_route  *)
(* walks the route tables in the order of the snapshot; its calls reach    *)
(* the cloud as they are issued. ok = FALSE: an exception left the         *)
(* function, the calls issued before it stay issued.                       *)
(***************************************************************************)
\* lines 157-178: the route of the table for the CIDR, for 'show' and 'del';
\* the lookup of line 157 raises KeyError when the route's instance_id is
\* not a key of instance_by_id (None of a gateway route, an unlisted id)
ManageFoundRoute(acc, rt, r, cmd, cidr) ==
    IF r.instance_id \notin DOMAIN instance_by_id
    THEN [acc EXCEPT !.ok = FALSE]
    ELSE IF cmd = "show"
         THEN [acc EXCEPT !.msg = Append(@, Msg("route exists", rt, cidr))]
         ELSE [acc EXCEPT !.msg = Append(@, Msg("deleting route", rt, cidr)),
                          !.calls = Append(@, DeleteCall(rt, cidr))]

\* a variant of ManageAddRoute that leaves a route through another
\* interface as it is
ManageAddRoute_KeepOther(acc, rt, r, instance, eni, cidr) ==
    IF r.interface_id = eni.id
    THEN [acc EXCEPT !.msg = Append(@, Msg("route exists already", rt, cidr))]
    ELSE [acc EXCEPT !.msg = Append(@, Msg("different destination", rt, cidr))]

\* lines 179-193: the route of the table for the CIDR, for 'add'
ManageAddRoute(acc, rt, r, instance, eni, cidr) ==
    IF r.interface_id = eni.id
    THEN [acc EXCEPT !.msg = Append(@, Msg("route exists already", rt, cidr))]
    ELSE [acc EXCEPT !.msg = Append(@, Msg("different destination", rt, cidr)),
                     !.calls = Append(@, ReplaceCall(rt, cidr, instance.id, eni.id))]

\* lines 196-207: the table has no route for the CIDR
ManageNoRoute(acc, rt, instance, eni, cmd, cidr) ==
    IF cmd \in {"show", "del"}
    THEN [acc EXCEPT !.msg = Append(@, Msg("did not find route", rt, cidr)),
                     !.found = FALSE]
    ELSE [acc EXCEPT !.msg = Append(@, Msg("adding route", rt, cidr)),
                     !.calls = Append(@, CreateCall(rt, cidr, instance.id, eni.id))]

\* lines 148-207: the body of the loop over the route tables, for table k
ManageRouteBody(acc, route_tables, k, instance, eni, cmd, cidr) ==
    LET rt == RouteTables[k]
        r  == route_tables[rt][cidr]
    IN  IF r /= NoRoute
        THEN IF cmd /= "add"
             THEN ManageFoundRoute(acc, rt, r, cmd, cidr)
             ELSE ManageAddRoute(acc, rt, r, instance, eni, cidr)
        ELSE ManageNoRoute(acc, rt, instance, eni, cmd, cidr)

RECURSIVE ManageRouteLoop(_, _, _, _, _, _, _)
ManageRouteLoop(acc, route_tables, k, instance, eni, cmd, cidr) ==
    IF k > Len(RouteTables) \/ ~acc.ok THEN acc
    ELSE ManageRouteLoop(ManageRouteBody(acc, route_tables, k, instance, eni, cmd, cidr),
                         route_tables, k + 1, instance, eni, cmd, cidr)

\* manage_route: the calls issued, the messages, the found flag
manage_route(route_tables, instance, eni, cmd, cidr) ==
    ManageRouteLoop([calls |-> <<>>, msg |-> <<>>, found |-> TRUE, ok |-> TRUE],
                    route_tables, 1, instance, eni, cmd, cidr)

\* handle_request, lines 349-370: the snapshot, the instance and interface
\* of router_ip when one is given (find_instance_and_emi_by_ip raises
\* VpcRouteSetError when there is none), manage_route; a StandardError
\* becomes VpcRouteSetError
handle_request(cmd, router_ip, dst_cidr) ==
    LET target == IF router_ip /= NoIP
                  THEN find_instance_and_emi_by_ip(router_ip)
                  ELSE [found |-> TRUE, instance |-> None, eni |-> None]
        res    == IF target.found
                  THEN manage_route(cloud, target.instance, target.eni, cmd, dst_cidr)
                  ELSE [calls |-> <<>>, msg |-> <<>>, found |-> TRUE, ok |-> FALSE]
    IN  /\ cloud' = ApplyCalls(cloud, res.calls)
        /\ run' = [n |-> run.n + 1, cmd |-> cmd, router_ip |-> router_ip,
                   dst_cidr |-> dst_cidr, before |-> cloud,
                   calls |-> res.calls, msg |-> res.msg, found |-> res.found,
                   ok |-> res.ok, prev_calls |-> run.calls, prev_ok |-> run.ok]

\* the requests parse_args lets through: 'add' with a router IP, 'show' and
\* 'del' without one (src/vpc-router.py, lines 111-131)
CliRequests ==
    {[cmd |-> "add", router_ip |-> ip, dst_cidr |-> c] : ip \in IPs, c \in CIDRs}
    \cup {[cmd |-> x, router_ip |-> NoIP, dst_cidr |-> c] :
             x \in {"show", "del"}, c \in CIDRs}

(***************************************************************************)
(* The request on its own: any route tables, any request, and the same     *)
(* request made up to MaxPasses times in a row.                            *)
(***************************************************************************)
InitCli ==
    /\ cloud \in Clouds
    /\ \E rq \in CliRequests :
          run = [n |-> 0, cmd |-> rq.cmd, router_ip |-> rq.router_ip,
                 dst_cidr |-> rq.dst_cidr, before |-> cloud,
                 calls |-> <<>>, msg |-> <<>>, found |-> TRUE, ok |-> TRUE,
                 prev_calls |-> <<>>, prev_ok |-> TRUE]
    /\ LoopInit
    /\ iterations = NoIterations

Request ==
    /\ run.n < MaxPasses
    /\ handle_request(run.cmd, run.router_ip, run.dst_cidr)
    /\ UNCHANGED loopVars

NextCli == Request

SpecCli == InitCli /\ [][NextCli]_vars

\* the instance and interface the request's router IP resolves to
Target == find_instance_and_emi_by_ip(run.router_ip)

\* the route the table had for the request's CIDR when the request began
RouteBefore(rt) == run.before[rt][run.dst_cidr]

(***************************************************************************)
(* C26: an 'add' whose router IP resolves returns, and for every route     *)
(* table it issues exactly create_route when the table had no route for    *)
(* the CIDR, exactly replace_route when the table had a route for the CIDR *)
(* through a different interface, and no call when the route went through  *)
(* the given interface; afterwards every route table has the route for the *)
(* CIDR through the given instance and interface, and a second identical   *)
(* 'add' issues no calls.                                                  *)
(***************************************************************************)
C26_AddSetsRouteInEveryTable ==
    (run.n >= 1 /\ run.cmd = "add" /\ Target.found) =>
        LET inst == Target.instance.id
            eni  == Target.eni.id
            c    == run.dst_cidr
        IN  /\ run.ok
            /\ \A rt \in RouteTableIds :
                  /\ Cardinality(CallsFor(rt, c)) <= 1
                  /\ run.n = 1 =>
                        {run.calls[k] : k \in CallsFor(rt, c)} =
                        (IF RouteBefore(rt) = NoRoute
                         THEN {CreateCall(rt, c, inst, eni)}
                         ELSE IF RouteBefore(rt).interface_id /= eni
                         THEN {ReplaceCall(rt, c, inst, eni)}
                         ELSE {})
                  /\ cloud[rt][c] = RouteVia(inst, eni)
            /\ \A k \in 1..Len(run.calls) : run.calls[k].destination_cidr_block = c
            /\ run.n >= 2 => run.calls = <<>>

\* an 'add' that found no route in one table and a route through another
\* interface in the other
C26_Witness ==
    /\ run.n = 1 /\ run.cmd = "add" /\ Target.found
    /\ \E rt1, rt2 \in RouteTableIds :
          /\ CallsOf("create_route", rt1, run.dst_cidr) /= {}
          /\ CallsOf("replace_route", rt2, run.dst_cidr) /= {}
    /\ \A rt \in RouteTableIds : cloud[rt][run.dst_cidr] = RouteVia(Target.instance.id, Target.eni.id)

(***************************************************************************)
(* C27 as stated: a 'show' or 'del' returns, with found = false exactly    *)
(* when some route table had no route for the CIDR; 'del' issues           *)
(* delete_route for the CIDR in exactly the tables that had a route for    *)
(* it, and 'show' issues no call.                                          *)
(***************************************************************************)
C27_ShowDelFoundAndDeletes ==
    (run.n = 1 /\ run.cmd \in {"show", "del"}) =>
        /\ run.ok
        /\ run.found = (\A rt \in RouteTableIds : RouteBefore(rt) /= NoRoute)
        /\ run.cmd = "show" => run.calls = <<>>
        /\ run.cmd = "del" =>
              /\ \A rt \in RouteTableIds :
                    (CallsOf("delete_route", rt, run.dst_cidr) /= {})
                        <=> (RouteBefore(rt) /= NoRoute)
              /\ \A k \in 1..Len(run.calls) :
                    run.calls[k] = DeleteCall(run.calls[k].route_table_id, run.dst_cidr)

====
